---- MODULE Spec2Model ----
(***************************************************************************)
(* Model of the day planner's schedule mutator and active-task monitor     *)
(* (src/app/page.tsx, src/components/task-form.tsx).                       *)
(*                                                                         *)
(* The task collection is a sequence of PlannerTask records.  Every        *)
(* handler of Page is one action: it computes the next collection from     *)
(* the current one, saves it (the SWR cache is mutated without             *)
(* revalidation, so the saved collection is the next rendered one) and     *)
(* performs its trailing state updates.                                    *)
(*                                                                         *)
(* tasks is the collection of the last render, the one the handlers close  *)
(* over; saved is the collection last handed to save (localStorage and     *)
(* the SWR cache).  The handler actions include the render that follows    *)
(* the save; the calls of SpecStale leave that render to a later step.     *)
(***************************************************************************)
EXTENDS Integers, Sequences, FiniteSets, TLC

VARIABLES tasks, saved, selectedId, nextId, now, lastOp

vars == <<tasks, saved, selectedId, nextId, now, lastOp>>

(***************************************************************************)
(* Bounds of the model.                                                    *)
(***************************************************************************)
\* longest task collection explored
MaxTasks == 3
\* number of identifiers the generators hand out
MaxId == 4

(***************************************************************************)
(* Program constants.                                                      *)
(***************************************************************************)
\* startMin: number | null -- null is the unplaced sentinel
Null == -1
\* 24 * 60
DayMin == 1440
\* the minimum duration used by Math.max(5, ...) in onSplitTask
MinDur == 5
\* the value JavaScript calls undefined, which no task field ever holds
Undefined == -2
\* DURATIONS of the task form
DURATIONS == {15, 30, 45, 60, 90}
\* CATS of the task form
CATS == {"Focus", "Admin", "Creative", "Break"}
\* COLORS of the task form
COLORS == {"blue", "teal", "orange", "cyan", "pink"}

(***************************************************************************)
(* Inputs the handlers are exercised with.                                 *)
(***************************************************************************)
\* what the user enters in the task form
FormInputs ==
    { [title |-> "Write report", icon |-> "memo", durationMin |-> 60,
       category |-> "Focus", color |-> "blue"],
      [title |-> "Coffee", icon |-> "cup", durationMin |-> 15,
       category |-> "Break", color |-> "orange"] }
\* minutes handed to place / move / resize
PlaceMinutes == {1430}
\* durations handed to resize
ResizeDurations == {7}
\* minutes handed to split
SplitMinutes == {10}
\* seconds at which the one-second timer is observed
ClockSecs == {0, 30, 59}
\* placements and durations of the task the clock is watched against
ClockStarts == {0, 700, 1400, 1439}
ClockDurations == {5, 60, 100, 1439}
\* placements and durations of the task split at every minute of the day
SplitStarts == {0, 3, 540, 1430, 1439}
SplitDurations == {5, 6, 7, 8, 15, 60, 90, 1439}
\* minutes at which tasks are placed on the dial of the day view
ViewMinutes == {0, 540, 600}
\* every minute of the day
AllMinutes == 0 .. (DayMin - 1)

(***************************************************************************)
(* Arithmetic of the JavaScript runtime.                                   *)
(***************************************************************************)
Max(a, b) == IF a >= b THEN a ELSE b

\* a % n of JavaScript: the result has the sign of the dividend
JsMod(a, n) == IF a >= 0 THEN a % n ELSE -((-a) % n)

\* Math.round(n / 5) * 5 ; Math.round(x) is floor(x + 1/2)
Round5(n) == ((2 * n + 5) \div 10) * 5

(***************************************************************************)
(* The collection.                                                         *)
(***************************************************************************)
IdsOf(ts) == { ts[i].id : i \in DOMAIN ts }

\* tasks.find((x) => x.id === id): index of the first match, 0 when none
FindIdx(ts, id) ==
    IF \E i \in DOMAIN ts : ts[i].id = id
    THEN CHOOSE i \in DOMAIN ts :
             ts[i].id = id /\ \A j \in DOMAIN ts : ts[j].id = id => i <= j
    ELSE 0

\* the identifiers of the tasks a caller sees
CallIds == IdsOf(tasks)

\* identifiers that name no task: not handed out yet, or of a task that is gone
UnknownIds == (1 .. MaxId + 1) \ IdsOf(tasks)

NewTask(id, f) ==
    [id |-> id, title |-> f.title, icon |-> f.icon, durationMin |-> f.durationMin,
     category |-> f.category, color |-> f.color, startMin |-> Null]

(***************************************************************************)
(* Schedule mutator: the handlers' transforms of the collection.           *)
(***************************************************************************)
\* onCreate: [...tasks, task]
CreateTask(ts, task) == Append(ts, task)

ScheduleResetsDuration(ts, taskId, startMin) ==
    [i \in DOMAIN ts |->
        IF ts[i].id = taskId
        THEN [ts[i] EXCEPT !.startMin = startMin, !.durationMin = MinDur]
        ELSE ts[i]]

\* onSchedule: tasks.map((t) => (t.id === taskId ? { ...t, startMin } : t))
Schedule(ts, taskId, startMin) ==
    [i \in DOMAIN ts |->
        IF ts[i].id = taskId THEN [ts[i] EXCEPT !.startMin = startMin] ELSE ts[i]]

\* onUnschedule: tasks.map((t) => (t.id === taskId ? { ...t, startMin: null } : t))
Unschedule(ts, taskId) ==
    [i \in DOMAIN ts |->
        IF ts[i].id = taskId THEN [ts[i] EXCEPT !.startMin = Null] ELSE ts[i]]

\* onDelete: tasks.filter((t) => t.id !== taskId)
RECURSIVE DeleteTask(_, _)
DeleteTask(ts, taskId) ==
    IF ts = <<>> THEN <<>>
    ELSE IF Head(ts).id # taskId
         THEN <<Head(ts)>> \o DeleteTask(Tail(ts), taskId)
         ELSE DeleteTask(Tail(ts), taskId)

\* onMoveTask: returns early when the id is unknown, else maps startMin
MoveTask(ts, id, startMin) ==
    IF FindIdx(ts, id) = 0 THEN ts
    ELSE [i \in DOMAIN ts |->
            IF ts[i].id = id THEN [ts[i] EXCEPT !.startMin = startMin] ELSE ts[i]]

\* onResizeTask: tasks.map((x) => (x.id === id ? { ...x, startMin, durationMin } : x))
ResizeTask(ts, id, startMin, durationMin) ==
    [i \in DOMAIN ts |->
        IF ts[i].id = id
        THEN [ts[i] EXCEPT !.startMin = startMin, !.durationMin = durationMin]
        ELSE ts[i]]

(***************************************************************************)
(* onSplitTask.                                                            *)
(***************************************************************************)
SplitAppliesToUnplaced(ts, id) == FindIdx(ts, id) # 0

\* if (!t || t.startMin == null) return
SplitApplies(ts, id) ==
    /\ FindIdx(ts, id) # 0
    /\ ts[FindIdx(ts, id)].startMin # Null

\* let e = start + t.durationMin ; if (e <= s) e += 24 * 60
SplitEnd(s, d) == IF s + d <= s THEN s + d + DayMin ELSE s + d

SplitPointNoWrap(s, d, splitAtMin) ==
    IF splitAtMin > SplitEnd(s, d) THEN SplitEnd(s, d) ELSE splitAtMin

\* if (split < s) split += 24 * 60 ; if (split > e) split = e
SplitPoint(s, d, splitAtMin) ==
    LET split == IF splitAtMin < s THEN splitAtMin + DayMin ELSE splitAtMin
    IN  IF split > SplitEnd(s, d) THEN SplitEnd(s, d) ELSE split

\* const durA = Math.max(5, Math.round((split - s) / 5) * 5)
DurA(s, d, splitAtMin) == Max(MinDur, Round5(SplitPoint(s, d, splitAtMin) - s))

DurBNoFloor(d, durA) == d - durA

DurBFloorZero(d, durA) == Max(0, d - durA)

\* const durB = Math.max(5, t.durationMin - durA)
DurB(d, durA) == Max(MinDur, d - durA)

\* const a = { ...t, id: uuid(), durationMin: durA }
HalfA(t, splitAtMin, idA) ==
    [t EXCEPT !.id = idA,
              !.durationMin = DurA(t.startMin, t.durationMin, splitAtMin)]

HalfBNoWrap(t, splitAtMin, idB) ==
    LET durA == DurA(t.startMin, t.durationMin, splitAtMin)
    IN  [t EXCEPT !.id = idB,
                  !.startMin = t.startMin + durA,
                  !.durationMin = DurB(t.durationMin, durA)]

\* const b = { ...t, id: uuid(), startMin: (start + durA) % (24 * 60), durationMin: durB }
HalfB(t, splitAtMin, idB) ==
    LET durA == DurA(t.startMin, t.durationMin, splitAtMin)
    IN  [t EXCEPT !.id = idB,
                  !.startMin = JsMod(t.startMin + durA, DayMin),
                  !.durationMin = DurB(t.durationMin, durA)]

RECURSIVE ReplaceAtEnd(_, _, _, _)
ReplaceAtEnd(ts, id, a, b) ==
    IF ts = <<>> THEN <<>>
    ELSE IF Head(ts).id = id
         THEN ReplaceAtEnd(Tail(ts), id, a, b) \o <<a, b>>
         ELSE <<Head(ts)>> \o ReplaceAtEnd(Tail(ts), id, a, b)

\* tasks.flatMap((x) => (x.id === id ? [a, b] : [x]))
RECURSIVE ReplaceByHalves(_, _, _, _)
ReplaceByHalves(ts, id, a, b) ==
    IF ts = <<>> THEN <<>>
    ELSE IF Head(ts).id = id
         THEN <<a, b>> \o ReplaceByHalves(Tail(ts), id, a, b)
         ELSE <<Head(ts)>> \o ReplaceByHalves(Tail(ts), id, a, b)

\* the collection onSplitTask saves (the input one when it returns early)
SplitTask(ts, id, splitAtMin, idA, idB) ==
    IF ~SplitApplies(ts, id) THEN ts
    ELSE LET t == ts[FindIdx(ts, id)]
         IN  ReplaceByHalves(ts, id, HalfA(t, splitAtMin, idA),
                             HalfB(t, splitAtMin, idB))

SelectionKeptOnFirstHalf(sel, id, idA) == IF sel = id THEN idA ELSE sel

\* setSelectedId(null) at the end of onSplitTask
SelectionAfterSplit(sel, id, idA) == Null

(***************************************************************************)
(* Derived view and active-task monitor.                                   *)
(***************************************************************************)
PlacedIncludingUnplaced(ts) == ts

\* tasks.filter((t) => t.startMin !== null)
Placed(ts) == SelectSeq(ts, LAMBDA t : t.startMin # Null)

\* tasks.filter((t) => t.startMin === null)
Unplaced(ts) == SelectSeq(ts, LAMBDA t : t.startMin = Null)

\* (a.startMin || 0): null and 0 are both falsy
SortKey(t) == IF t.startMin = Null THEN 0 ELSE t.startMin

\* stable insertion of t into a sequence sorted by SortKey
RECURSIVE InsertSorted(_, _)
InsertSorted(t, ss) ==
    IF ss = <<>> THEN <<t>>
    ELSE IF SortKey(Head(ss)) <= SortKey(t)
         THEN <<Head(ss)>> \o InsertSorted(t, Tail(ss))
         ELSE <<t>> \o ss

\* .sort((a, b) => (a.startMin || 0) - (b.startMin || 0)) ; Array.prototype.sort is stable
RECURSIVE SortByStart(_)
SortByStart(ts) ==
    IF ts = <<>> THEN <<>>
    ELSE InsertSorted(ts[Len(ts)], SortByStart(SubSeq(ts, 1, Len(ts) - 1)))

scheduled == SortByStart(Placed(tasks))

unplaced == Unplaced(tasks)

\* reduce((acc, t) => acc + t.durationMin, 0)
RECURSIVE SumDurations(_)
SumDurations(ss) ==
    IF ss = <<>> THEN 0
    ELSE SumDurations(SubSeq(ss, 1, Len(ss) - 1)) + ss[Len(ss)].durationMin

totalScheduled == SumDurations(scheduled)

\* reduce((acc, t) => { acc[t.category] += t.durationMin; return acc },
\*        { Focus: 0, Admin: 0, Creative: 0, Break: 0 })
RECURSIVE ByCategory(_)
ByCategory(ss) ==
    IF ss = <<>> THEN [c \in CATS |-> 0]
    ELSE LET t == ss[Len(ss)]
         IN  [ByCategory(SubSeq(ss, 1, Len(ss) - 1))
                 EXCEPT ![t.category] = @ + t.durationMin]

byCat == ByCategory(scheduled)

withinExclusiveEnd(nowM, s, d) ==
    LET e  == IF s + d <= s THEN s + d + DayMin ELSE s + d
        nm == IF nowM < s THEN nowM + DayMin ELSE nowM
    IN  nm >= s /\ nm < e

\* function within(nowM, s, d)
within(nowM, s, d) ==
    LET e  == IF s + d <= s THEN s + d + DayMin ELSE s + d
        nm == IF nowM < s THEN nowM + DayMin ELSE nowM
    IN  nm >= s /\ nm <= e

\* now.getHours() * 60 + now.getMinutes()
nowMin == now.min

hasSelectedAmongAll == FindIdx(tasks, selectedId) # 0

\* scheduled.find((t) => t.id === selectedId) || null
hasSelected == FindIdx(scheduled, selectedId) # 0

selected == scheduled[FindIdx(scheduled, selectedId)]

isActive ==
    IF hasSelected /\ selected.startMin # Null
    THEN within(nowMin, selected.startMin, selected.durationMin)
    ELSE FALSE

RemainingOfIgnoringSeconds(s, d, nm, sec) == JsMod(s + d - nm + DayMin, DayMin) * 60

\* ((startMin + durationMin - nowMin + 24 * 60) % (24 * 60)) * 60 - now.getSeconds()
RemainingOf(s, d, nm, sec) == JsMod(s + d - nm + DayMin, DayMin) * 60 - sec

remaining ==
    IF hasSelected /\ selected.startMin # Null
    THEN RemainingOf(selected.startMin, selected.durationMin, nowMin, now.sec)
    ELSE 0

\* Math.max(0, remaining), the value the Focus Mode countdown shows
shownRemaining == Max(0, remaining)

\* {selected && isActive && ( ... Focus Mode ... )}
focusModeShown == hasSelected /\ isActive

(***************************************************************************)
(* The handlers of Page.  lastOp records the handler that ran last and    *)
(* its arguments.                                                          *)
(***************************************************************************)
\* applied: the split replaced a task; sel: the selection the split found
Op(name, id, m, d) ==
    [op |-> name, id |-> id, m |-> m, d |-> d, applied |-> FALSE, sel |-> Null]

NoOp == Op("init", Null, Null, Null)

\* TaskForm.handleCreate builds the task (fresh id, unplaced), Page.onCreate appends it
onCreate(f) ==
    /\ Len(tasks) < MaxTasks
    /\ nextId <= MaxId
    /\ tasks' = CreateTask(tasks, NewTask(nextId, f))
    /\ saved' = tasks'
    /\ nextId' = nextId + 1
    /\ lastOp' = Op("create", nextId, Null, f.durationMin)
    /\ UNCHANGED <<selectedId, now>>

onSchedule(taskId, startMin) ==
    /\ tasks' = Schedule(tasks, taskId, startMin)
    /\ saved' = tasks'
    /\ lastOp' = Op("schedule", taskId, startMin, Null)
    /\ UNCHANGED <<selectedId, nextId, now>>

onUnschedule(taskId) ==
    /\ tasks' = Unschedule(tasks, taskId)
    /\ saved' = tasks'
    /\ lastOp' = Op("unschedule", taskId, Null, Null)
    /\ UNCHANGED <<selectedId, nextId, now>>

onDelete(taskId) ==
    /\ tasks' = DeleteTask(tasks, taskId)
    /\ saved' = tasks'
    /\ lastOp' = Op("delete", taskId, Null, Null)
    /\ UNCHANGED <<selectedId, nextId, now>>

onMoveTask(id, startMin) ==
    /\ tasks' = MoveTask(tasks, id, startMin)
    /\ saved' = tasks'
    /\ lastOp' = Op("move", id, startMin, Null)
    /\ UNCHANGED <<selectedId, nextId, now>>

onResizeTask(id, startMin, durationMin) ==
    /\ tasks' = ResizeTask(tasks, id, startMin, durationMin)
    /\ saved' = tasks'
    /\ lastOp' = Op("resize", id, startMin, durationMin)
    /\ UNCHANGED <<selectedId, nextId, now>>

\* the two uuid() calls are the next two unused identifiers
onSplitTask(id, splitAtMin) ==
    /\ lastOp' = [Op("split", id, splitAtMin, Null) EXCEPT
                      !.applied = SplitApplies(tasks, id),
                      !.sel = IF SplitApplies(tasks, id) THEN selectedId ELSE Null]
    /\ IF SplitApplies(tasks, id)
       THEN /\ Len(tasks) < MaxTasks
            /\ nextId + 1 <= MaxId
            /\ tasks' = SplitTask(tasks, id, splitAtMin, nextId, nextId + 1)
            /\ saved' = tasks'
            /\ nextId' = nextId + 2
            /\ selectedId' = SelectionAfterSplit(selectedId, id, nextId)
       ELSE UNCHANGED <<tasks, saved, nextId, selectedId>>
    /\ UNCHANGED now

\* onSelectTask={(id) => setSelectedId(id)}; the clock is given the scheduled tasks
onSelectTask(id) ==
    /\ id \in IdsOf(Placed(tasks))
    /\ selectedId' = id
    /\ lastOp' = Op("select", id, Null, Null)
    /\ UNCHANGED <<tasks, saved, nextId, now>>

\* onRequestReset={() => setSelectedId(null)}
onRequestReset ==
    /\ selectedId' = Null
    /\ lastOp' = Op("reset", Null, Null, Null)
    /\ UNCHANGED <<tasks, saved, nextId, now>>

\* setInterval(() => setNow(new Date()), 1000); r is the reading of the clock
Tick(r) ==
    /\ now' = r
    /\ lastOp' = Op("tick", Null, Null, Null)
    /\ UNCHANGED <<tasks, saved, selectedId, nextId>>

(***************************************************************************)
(* The planner: an empty day, then any sequence of mutations.              *)
(***************************************************************************)
Midnight == [min |-> 0, sec |-> 0]

Init ==
    /\ tasks = <<>>
    /\ saved = tasks
    /\ selectedId = Null
    /\ nextId = 1
    /\ now = Midnight
    /\ lastOp = NoOp

Create == \E f \in FormInputs : onCreate(f)
Place == \E id \in CallIds, m \in PlaceMinutes : onSchedule(id, m)
Unplace == \E id \in CallIds : onUnschedule(id)
Delete == \E id \in CallIds : onDelete(id)
Move == \E id \in CallIds, m \in PlaceMinutes : onMoveTask(id, m)
Resize == \E id \in CallIds, m \in PlaceMinutes, d \in ResizeDurations : onResizeTask(id, m, d)
Split == \E id \in CallIds, p \in SplitMinutes : onSplitTask(id, p)

Next ==
    \/ Create
    \/ Place
    \/ Unplace
    \/ Delete
    \/ Move
    \/ Resize
    \/ Split

Spec == Init /\ [][Next]_vars

(***************************************************************************)
(* Calls that name no task of the collection.                              *)
(***************************************************************************)
PlaceUnknown == \E id \in UnknownIds, m \in PlaceMinutes : onSchedule(id, m)
UnplaceUnknown == \E id \in UnknownIds : onUnschedule(id)
DeleteUnknown == \E id \in UnknownIds : onDelete(id)
MoveUnknown == \E id \in UnknownIds, m \in PlaceMinutes : onMoveTask(id, m)
ResizeUnknown ==
    \E id \in UnknownIds, m \in PlaceMinutes, d \in ResizeDurations : onResizeTask(id, m, d)
SplitUnknown == \E id \in UnknownIds, p \in SplitMinutes : onSplitTask(id, p)

NextUnknown ==
    \/ Create
    \/ Place
    \/ Delete
    \/ Split
    \/ PlaceUnknown
    \/ UnplaceUnknown
    \/ DeleteUnknown
    \/ MoveUnknown
    \/ ResizeUnknown
    \/ SplitUnknown

SpecUnknown == Init /\ [][NextUnknown]_vars

(***************************************************************************)
(* Selection: tasks are created, placed, selected and split.               *)
(***************************************************************************)
Select == \E id \in CallIds : onSelectTask(id)
Deselect == onRequestReset

NextSelect ==
    \/ Create
    \/ Place
    \/ Select
    \/ Deselect
    \/ Split

SpecSelect == Init /\ [][NextSelect]_vars

(***************************************************************************)
(* One placed task, split once at any minute of the day.                   *)
(***************************************************************************)
PlacedTask(id, f, s, d) == [NewTask(id, f) EXCEPT !.startMin = s, !.durationMin = d]

InitSplit ==
    /\ \E f \in FormInputs, s \in SplitStarts, d \in SplitDurations :
           tasks = <<PlacedTask(1, f, s, d)>>
    /\ saved = tasks
    /\ selectedId = Null
    /\ nextId = 2
    /\ now = Midnight
    /\ lastOp = NoOp

SplitOnce == lastOp.op = "init" /\ \E p \in AllMinutes : onSplitTask(1, p)

SpecSplit == InitSplit /\ [][SplitOnce]_vars

(***************************************************************************)
(* One placed, selected task watched while the clock runs through the day. *)
(***************************************************************************)
InitClock ==
    /\ \E f \in FormInputs, s \in ClockStarts, d \in ClockDurations :
           tasks = <<PlacedTask(1, f, s, d)>>
    /\ saved = tasks
    /\ selectedId = 1
    /\ nextId = 2
    /\ now = Midnight
    /\ lastOp = NoOp

\* the timer fires within the same minute or in the next one
NextReadings ==
    { [min |-> now.min, sec |-> sc] : sc \in { x \in ClockSecs : x > now.sec } }
    \cup { [min |-> (now.min + 1) % DayMin, sec |-> sc] : sc \in ClockSecs }

ClockTick == \E r \in NextReadings : Tick(r)

NextClock ==
    \/ ClockTick
    \/ Select
    \/ Deselect

SpecClock == InitClock /\ [][NextClock]_vars

(***************************************************************************)
(* Day view: tasks are created, placed at several minutes of the dial,     *)
(* taken off the dial and deleted.                                         *)
(***************************************************************************)
PlaceOnDial == \E id \in CallIds, m \in ViewMinutes : onSchedule(id, m)

NextView ==
    \/ Create
    \/ PlaceOnDial
    \/ Unplace
    \/ Delete

SpecView == Init /\ [][NextView]_vars

(***************************************************************************)
(* Export: the three entries of the export menu.  An export leaves the     *)
(* collection alone; lastOp.out records what it handed to the outside.     *)
(***************************************************************************)
\* !x for a value of type number | null
Falsy(x) == x = Null \/ x = 0

\* ids of the entries of ss, in order
IdSeq(ss) == [i \in 1 .. Len(ss) |-> ss[i].id]

\* tasks.filter(task => task.startMin !== undefined && task.durationMin !== undefined)
scheduledTasks(ts) ==
    SelectSeq(ts, LAMBDA t : t.startMin # Undefined /\ t.durationMin # Undefined)

\* generateICS: the tasks a VEVENT is pushed for
\* (if (!task.startMin || !task.durationMin) return)
generateICS(ts) ==
    SelectSeq(ts, LAMBDA t : ~(Falsy(t.startMin) \/ Falsy(t.durationMin)))

\* alert: 'No scheduled tasks to export!' was shown; made: a file was
\* downloaded or a window was opened; ids: the tasks that went out, in order;
\* threw: the export ended in an exception
Out(alert, made, ids, threw) ==
    [alert |-> alert, made |-> made, ids |-> ids, threw |-> threw]

\* exportTasks -> downloadICS -> generateICS
exportTasks(ts) ==
    IF Len(scheduledTasks(ts)) = 0
    THEN Out(TRUE, FALSE, <<>>, FALSE)
    ELSE Out(FALSE, TRUE, IdSeq(generateICS(scheduledTasks(ts))), FALSE)

\* the entries of ss before the first one without a start minute
RECURSIVE BeforeFirstNull(_)
BeforeFirstNull(ss) ==
    IF ss = <<>> \/ Head(ss).startMin = Null THEN <<>>
    ELSE <<Head(ss)>> \o BeforeFirstNull(Tail(ss))

\* exportToGoogleCalendar: one window.open per entry of scheduledTasks.
\* addMinutes(date, null) is left to the date-fns release the build links:
\* it either yields an invalid date, on which format throws (nullThrows), or
\* the date itself, so that the entry goes out dated at midnight.
exportToGoogleCalendar(ts, nullThrows) ==
    LET ss == scheduledTasks(ts)
        opened == IF nullThrows THEN BeforeFirstNull(ss) ELSE ss
    IN  IF Len(ss) = 0
        THEN Out(TRUE, FALSE, <<>>, FALSE)
        ELSE Out(FALSE, opened # <<>>, IdSeq(opened), Len(opened) < Len(ss))

\* exportJSON: payload = { date, tasks }
exportJSON(ts) == Out(FALSE, TRUE, IdSeq(ts), FALSE)

ExportOp(name, out) ==
    [op |-> name, id |-> Null, m |-> Null, d |-> Null, applied |-> FALSE,
     sel |-> Null, out |-> out]

handleExportCalendar ==
    /\ lastOp' = ExportOp("exportCalendar", exportTasks(tasks))
    /\ UNCHANGED <<tasks, saved, selectedId, nextId, now>>

handleExportGoogle(nullThrows) ==
    /\ lastOp' = ExportOp("exportGoogle", exportToGoogleCalendar(tasks, nullThrows))
    /\ UNCHANGED <<tasks, saved, selectedId, nextId, now>>

handleExportJSON ==
    /\ lastOp' = ExportOp("exportJSON", exportJSON(tasks))
    /\ UNCHANGED <<tasks, saved, selectedId, nextId, now>>

ExportCalendar == handleExportCalendar
ExportGoogle == \E nullThrows \in BOOLEAN : handleExportGoogle(nullThrows)
ExportJSON == handleExportJSON

NextExport ==
    \/ Create
    \/ PlaceOnDial
    \/ Unplace
    \/ Delete
    \/ ExportCalendar
    \/ ExportGoogle
    \/ ExportJSON

SpecExport == Init /\ [][NextExport]_vars

(***************************************************************************)
(* Loading: SWR runs swrFetcher for the key of the shown date (on mount,   *)
(* on date navigation, on revalidation) and Page renders what it returns.  *)
(***************************************************************************)
\* what localStorage can hold under a date key: nothing, the empty string,
\* text that is not JSON, or the JSON text of null, 0, another number, a
\* string, an object or an array of tasks
StoredKinds ==
    {"missing", "empty", "unparsable", "null", "zero", "number", "string",
     "object", "array"}

StoredArrays ==
    { <<>> }
    \cup { <<PlacedTask(1, f, 540, f.durationMin)>> : f \in FormInputs }
    \cup { <<NewTask(1, f), PlacedTask(2, g, 0, g.durationMin)>> :
               f \in FormInputs, g \in FormInputs }

StoredValues ==
    { [kind |-> k, arr |-> <<>>] : k \in StoredKinds \ {"array"} }
    \cup { [kind |-> "array", arr |-> a] : a \in StoredArrays }

\* a JavaScript value: an array of tasks, or a value of another type
ArrayValue(a) == [type |-> "array", arr |-> a]
OtherValue(k) == [type |-> k, arr |-> <<>>]

\* swrFetcher: raw ? JSON.parse(raw) : [], and [] when JSON.parse throws
swrFetcher(raw) ==
    IF raw.kind \in {"missing", "empty"} THEN ArrayValue(<<>>)
    ELSE IF raw.kind = "unparsable" THEN ArrayValue(<<>>)
    ELSE IF raw.kind = "array" THEN ArrayValue(raw.arr)
    ELSE OtherValue(raw.kind)

\* useDayTasks: tasks: data || []  (null and 0 are falsy)
useDayTasks(data) ==
    IF data.type \in {"null", "zero"} THEN ArrayValue(<<>>) ELSE data

\* tasks.filter exists only on an array; on any other value the render of
\* Page throws a TypeError
RenderThrows(v) == v.type # "array"

\* the next unused id once ts is loaded (StoredArrays number their tasks from 1)
FreshId(ts) == Len(ts) + 1

\* raw: the kind of stored value; data: the type of the value Page got as
\* tasks; failed: the render threw
LoadOp(raw, data, failed) ==
    [op |-> "load", id |-> Null, m |-> Null, d |-> Null, applied |-> FALSE,
     sel |-> Null, raw |-> raw, data |-> data, failed |-> failed]

\* the page is still rendered
Alive == ~(lastOp.op = "load" /\ lastOp.failed)

\* when the render throws nothing is shown any more
LoadDay(raw) ==
    LET v == useDayTasks(swrFetcher(raw))
    IN  /\ Alive
        /\ tasks' = (IF RenderThrows(v) THEN <<>> ELSE v.arr)
        /\ saved' = tasks'
        /\ nextId' = (IF RenderThrows(v) THEN nextId ELSE FreshId(v.arr))
        /\ lastOp' = LoadOp(raw.kind, v.type, RenderThrows(v))
        /\ UNCHANGED <<selectedId, now>>

Load == \E raw \in StoredValues : LoadDay(raw)

NextLoad ==
    \/ Load
    \/ (Alive /\ Create)
    \/ (Alive /\ PlaceOnDial)
    \/ (Alive /\ Unplace)

SpecLoad == Init /\ [][NextLoad]_vars

(***************************************************************************)
(* Calls and renders as separate steps.  A handler is a closure of the     *)
(* render that created it: it reads that render's tasks, and save hands    *)
(* the result to localStorage and the SWR cache.  Page gets the saved      *)
(* collection as tasks only when it renders again, so a second call made   *)
(* before that render still reads the collection of the last render.       *)
(***************************************************************************)
\* onCreate: save([...(tasks || []), task])
CallCreate(f) ==
    /\ Len(tasks) < MaxTasks
    /\ nextId <= MaxId
    /\ saved' = CreateTask(tasks, NewTask(nextId, f))
    /\ nextId' = nextId + 1
    /\ lastOp' = Op("create", nextId, Null, f.durationMin)
    /\ UNCHANGED <<tasks, selectedId, now>>

\* onSchedule: save(tasks.map(...))
CallSchedule(taskId, startMin) ==
    /\ saved' = Schedule(tasks, taskId, startMin)
    /\ lastOp' = Op("schedule", taskId, startMin, Null)
    /\ UNCHANGED <<tasks, selectedId, nextId, now>>

\* onDelete: save(tasks.filter(...))
CallDelete(taskId) ==
    /\ saved' = DeleteTask(tasks, taskId)
    /\ lastOp' = Op("delete", taskId, Null, Null)
    /\ UNCHANGED <<tasks, selectedId, nextId, now>>

\* Page renders with the data of the SWR cache
Rerender ==
    /\ tasks # saved
    /\ tasks' = saved
    /\ lastOp' = Op("render", Null, Null, Null)
    /\ UNCHANGED <<saved, selectedId, nextId, now>>

StaleCreate == \E f \in FormInputs : CallCreate(f)
StalePlace == \E id \in CallIds, m \in PlaceMinutes : CallSchedule(id, m)
StaleDelete == \E id \in CallIds : CallDelete(id)

NextStale ==
    \/ StaleCreate
    \/ StalePlace
    \/ StaleDelete
    \/ Rerender

SpecStale == Init /\ [][NextStale]_vars

(***************************************************************************)
(* Focus: tasks are created, placed and selected, and the selected task    *)
(* may be taken off the dial or deleted while it is selected.              *)
(***************************************************************************)
NextFocus ==
    \/ Create
    \/ Place
    \/ Select
    \/ Deselect
    \/ Unplace
    \/ Delete

SpecFocus == Init /\ [][NextFocus]_vars

(***************************************************************************)
(* Properties of the split arithmetic (SpecSplit).                         *)
(***************************************************************************)
\* the step just taken replaced a placed task by its two halves
SplitStep == lastOp'.op = "split" /\ lastOp'.applied

\* the state follows a split that replaced a placed task
AfterSplit == lastOp.op = "split" /\ lastOp.applied

\* the multiple of 5 nearest to the natural number x (never a tie)
NearestMultipleOf5(x) ==
    LET lo == 5 * (x \div 5)
        hi == lo + 5
    IN  IF x - lo <= hi - x THEN lo ELSE hi

\* the split minute read on the timeline that starts at s
NormalizedSplit(s, p) == IF p < s THEN p + DayMin ELSE p

Min(a, b) == IF a <= b THEN a ELSE b

\* C1 as stated: the two halves of every split sum to the duration of the
\* task that was split.
C1_SplitConservesDuration ==
    [][SplitStep =>
         tasks'[1].durationMin + tasks'[2].durationMin = tasks[1].durationMin]_vars

\* C1, amended: the halves sum to the original duration exactly when the first
\* half leaves at least 5 minutes to the second; otherwise the second half is
\* floored at 5 and the sum is the first half plus 5, more than the original.
C1_SplitSumAmended ==
    [][SplitStep =>
         LET d    == tasks[1].durationMin
             durA == tasks'[1].durationMin
             durB == tasks'[2].durationMin
         IN  IF d - durA >= 5
             THEN durA + durB = d
             ELSE durA + durB = durA + 5 /\ durA + durB > d]_vars

\* a 60-minute task split at its end: halves of 60 and 5 minutes
C1_Witness ==
    /\ AfterSplit
    /\ Len(tasks) = 2
    /\ tasks[1].durationMin = 60
    /\ tasks[2].durationMin = 5

\* C2: a split at raw minute p of a task (s, d) reads p < s as p + 1440,
\* clamps it to s + d, gives the first half start s and duration
\* durA = max(5, nearest multiple of 5 to p' - s), and the second half start
\* (s + durA) mod 1440 and duration max(5, d - durA); s = 1430, d = 60, p = 10
\* gives (1430, 20) and (10, 40).
C2_SplitHalves ==
    [][SplitStep =>
         LET s    == tasks[1].startMin
             d    == tasks[1].durationMin
             p    == Min(NormalizedSplit(s, lastOp'.m), s + d)
             durA == Max(5, NearestMultipleOf5(p - s))
             a    == tasks'[1]
             b    == tasks'[2]
         IN  /\ a.startMin = s
             /\ a.durationMin = durA
             /\ b.startMin = (s + durA) % DayMin
             /\ b.durationMin = Max(5, d - durA)
             /\ (s = 1430 /\ d = 60 /\ lastOp'.m = 10) =>
                    /\ a.startMin = 1430 /\ a.durationMin = 20
                    /\ b.startMin = 10 /\ b.durationMin = 40]_vars

\* the task 23:50-00:50 split at raw minute 10
C2_Witness ==
    /\ AfterSplit
    /\ lastOp.m = 10
    /\ tasks[1].startMin = 1430 /\ tasks[1].durationMin = 20
    /\ tasks[2].startMin = 10 /\ tasks[2].durationMin = 40

\* C3: when the normalized split point lies beyond the task's end, the second
\* half lasts exactly 5 minutes (never zero, never negative).
C3_SplitPastEnd ==
    [][(SplitStep /\
        NormalizedSplit(tasks[1].startMin, lastOp'.m)
            > tasks[1].startMin + tasks[1].durationMin) =>
         tasks'[2].durationMin = 5 /\ tasks'[2].durationMin > 0]_vars

\* a task 09:00-10:00 split at 11:40
C3_Witness ==
    /\ AfterSplit
    /\ lastOp.m = 700
    /\ tasks[1].startMin = 540 /\ tasks[1].durationMin = 60
    /\ tasks[2].durationMin = 5

(***************************************************************************)
(* Properties of the mutations (Spec, SpecUnknown).                         *)
(***************************************************************************)
\* the position of the task id in the collection the step started from
PosOf(id) == CHOOSE i \in DOMAIN tasks : tasks[i].id = id

\* the step just taken called handler name
Called(name) == lastOp'.op = name

\* C4: every task of the collection lasts at least 5 minutes and is unplaced
\* or starts at a minute of the day, the halves of a split included.
C4_TasksValid ==
    \A i \in DOMAIN tasks :
        /\ tasks[i].durationMin >= 5
        /\ tasks[i].startMin = Null \/ tasks[i].startMin \in 0 .. 1439

\* a split whose second half took the 5-minute floor and wrapped past midnight
C4_Witness ==
    /\ AfterSplit
    /\ \E i \in DOMAIN tasks :
           /\ i > 1
           /\ tasks[i].durationMin = 5
           /\ tasks[i].startMin = 5
           /\ tasks[i - 1].startMin = 1430

\* C5: place, move, resize, unschedule, delete and split with an id that is not
\* in the collection, and split of an unplaced task, leave the collection as
\* it was.
C5_UnknownIdNoOp ==
    [][/\ ((Called("schedule") \/ Called("move") \/ Called("resize")
             \/ Called("unschedule") \/ Called("delete") \/ Called("split"))
           /\ lastOp'.id \notin IdsOf(tasks)) => tasks' = tasks
       /\ (Called("split")
           /\ \E i \in DOMAIN tasks :
                  tasks[i].id = lastOp'.id /\ tasks[i].startMin = Null)
              => tasks' = tasks]_vars

\* a resize named a task that had been deleted, with two tasks in the collection
C5_Witness ==
    /\ lastOp.op = "resize"
    /\ lastOp.id \notin IdsOf(tasks)
    /\ lastOp.id < nextId
    /\ Len(tasks) = 2

\* C6: place, move and unschedule change nothing but the startMin of the task
\* they name, and no handler other than resize and split changes a duration.
C6_OnlyStartChanges ==
    [][IF lastOp'.op \in {"schedule", "move", "unschedule"}
       THEN /\ Len(tasks') = Len(tasks)
            /\ \A i \in DOMAIN tasks :
                   /\ tasks'[i].id = tasks[i].id
                   /\ tasks'[i].title = tasks[i].title
                   /\ tasks'[i].icon = tasks[i].icon
                   /\ tasks'[i].category = tasks[i].category
                   /\ tasks'[i].color = tasks[i].color
                   /\ tasks'[i].durationMin = tasks[i].durationMin
                   /\ tasks[i].id # lastOp'.id => tasks'[i] = tasks[i]
       ELSE lastOp'.op \notin {"resize", "split"} =>
                \A j \in DOMAIN tasks' : \A i \in DOMAIN tasks :
                    tasks'[j].id = tasks[i].id =>
                        tasks'[j].durationMin = tasks[i].durationMin]_vars

\* a task was placed while another task was in the collection
C6_Witness ==
    /\ lastOp.op = "schedule"
    /\ Len(tasks) >= 2
    /\ \E i \in DOMAIN tasks :
           tasks[i].id = lastOp.id /\ tasks[i].startMin = lastOp.m

\* C7: a split puts, where the original was, its first half and then its
\* second half, under two fresh ids, with the original's title, icon, category
\* and color; the original id is gone and every other task stays as and where
\* it was, so the collection grows by one.
C7_SplitInPlace ==
    [][SplitStep =>
         LET k == PosOf(lastOp'.id)
             t == tasks[k]
             a == tasks'[k]
             b == tasks'[k + 1]
         IN  /\ Len(tasks') = Len(tasks) + 1
             /\ lastOp'.id \notin IdsOf(tasks')
             /\ a.id # b.id
             /\ a.id \notin IdsOf(tasks) /\ b.id \notin IdsOf(tasks)
             /\ Cardinality(IdsOf(tasks')) = Len(tasks')
             /\ \A h \in {a, b} :
                    /\ h.title = t.title /\ h.icon = t.icon
                    /\ h.category = t.category /\ h.color = t.color
             /\ a.startMin = t.startMin
             /\ b.startMin = (t.startMin + a.durationMin) % DayMin
             /\ \A i \in DOMAIN tasks :
                    /\ i < k => tasks'[i] = tasks[i]
                    /\ i > k => tasks'[i + 1] = tasks[i]]_vars

\* the first of two tasks was split: its halves stand before the other task
C7_Witness ==
    /\ AfterSplit
    /\ Len(tasks) = 3
    /\ tasks[3].id < tasks[1].id
    /\ tasks[3].id < tasks[2].id
    /\ tasks[1].title = tasks[2].title
    /\ tasks[3].title # tasks[1].title

(***************************************************************************)
(* Property of the selection (SpecSelect).                                 *)
(***************************************************************************)
\* C10: after a split of a placed task nothing is selected, whatever was
\* selected before.
C10_SplitDeselects == AfterSplit => selectedId = Null

\* the task that was split was the selected one
C10_Witness == AfterSplit /\ lastOp.sel = lastOp.id

(***************************************************************************)
(* Properties of the active-task monitor (SpecClock).                      *)
(***************************************************************************)
\* minutes from a to b going forward round the day
Forward(a, b) == (b - a + DayMin) % DayMin

\* C8: within(now, s, d) is true exactly when ((now - s) mod 1440) <= d; it is
\* true at now = s, at now = (s + d) mod 1440 and for s = 1400, d = 100,
\* now = 30.
C8_WithinCircular ==
    hasSelected =>
        LET s == selected.startMin
            d == selected.durationMin
        IN  /\ isActive <=> (Forward(s, nowMin) <= d)
            /\ within(nowMin, s, d) <=> (Forward(s, nowMin) <= d)
            /\ nowMin = s => isActive
            /\ nowMin = (s + d) % DayMin => isActive
            /\ (s = 1400 /\ d = 100 /\ nowMin = 30) => isActive

\* the task 23:20-01:00 watched at 00:30
C8_Witness ==
    /\ hasSelected
    /\ selected.startMin = 1400 /\ selected.durationMin = 100
    /\ nowMin = 30
    /\ isActive

\* C9: while the selected task is active, remaining is 60 times the minutes
\* left to the task's end minus the current second, between -59 and
\* 60 * durationMin, and the countdown shown is never negative.
C9_Remaining ==
    (isActive /\ selected.durationMin < DayMin) =>
        LET s    == selected.startMin
            d    == selected.durationMin
            left == d - Forward(s, nowMin)
        IN  /\ remaining = 60 * left - now.sec
            /\ remaining >= -59
            /\ remaining <= 60 * d
            /\ shownRemaining >= 0
            /\ shownRemaining = (IF remaining < 0 THEN 0 ELSE remaining)

\* the last minute of the task, 59 seconds in: remaining is negative, 0 is shown
C9_Witness ==
    /\ isActive
    /\ now.sec = 59
    /\ remaining = -59
    /\ shownRemaining = 0

(***************************************************************************)
(* Properties of the derived day view (SpecView).                          *)
(***************************************************************************)
\* number of entries of ss with the given id
Count(ss, id) == Cardinality({ i \in 1 .. Len(ss) : ss[i].id = id })

\* sum of f[x] over the set S
RECURSIVE SumOver(_, _)
SumOver(f, S) ==
    IF S = {} THEN 0
    ELSE LET x == CHOOSE y \in S : TRUE
         IN  f[x] + SumOver(f, S \ {x})

\* C11: in every state the scheduled view holds exactly the tasks with a
\* start minute, each once, in non-decreasing order of start minute; the
\* unplaced list holds exactly the other tasks; totalScheduled is the sum of
\* the durations of the placed tasks and the four category buckets add up to
\* it.  A single 60-minute task placed at 540 gives one entry at 540, a total
\* of 60, 60 in its own bucket and 0 in the others.
C11_DerivedView ==
    /\ \A i \in 1 .. Len(tasks) :
           /\ Count(scheduled, tasks[i].id)
                  = (IF tasks[i].startMin # Null THEN 1 ELSE 0)
           /\ Count(unplaced, tasks[i].id)
                  = (IF tasks[i].startMin = Null THEN 1 ELSE 0)
    /\ \A i \in 1 .. Len(scheduled) :
           /\ \E j \in 1 .. Len(tasks) : tasks[j] = scheduled[i]
           /\ scheduled[i].startMin # Null
    /\ \A i \in 1 .. Len(unplaced) :
           \E j \in 1 .. Len(tasks) : tasks[j] = unplaced[i]
    /\ Len(scheduled) + Len(unplaced) = Len(tasks)
    /\ \A i \in 1 .. Len(scheduled) - 1 :
           scheduled[i].startMin <= scheduled[i + 1].startMin
    /\ totalScheduled
           = SumOver([i \in 1 .. Len(tasks) |->
                         IF tasks[i].startMin # Null THEN tasks[i].durationMin
                         ELSE 0],
                     1 .. Len(tasks))
    /\ DOMAIN byCat = CATS
    /\ SumOver(byCat, CATS) = totalScheduled
    /\ (Len(tasks) = 1 /\ tasks[1].startMin = 540 /\ tasks[1].durationMin = 60)
           => /\ Len(scheduled) = 1
              /\ scheduled[1].startMin = 540
              /\ totalScheduled = 60
              /\ \A c \in CATS :
                     byCat[c] = (IF c = tasks[1].category THEN 60 ELSE 0)

\* a later task sits before an earlier one in the collection, next to an
\* unplaced one, and the 60-minute task stands at 540
C11_Witness ==
    /\ lastOp.op = "schedule"
    /\ \E i, j, k \in 1 .. Len(tasks) :
           /\ i < j
           /\ tasks[i].startMin # Null
           /\ tasks[j].startMin # Null
           /\ tasks[j].startMin < tasks[i].startMin
           /\ tasks[k].startMin = Null
    /\ \E i \in 1 .. Len(tasks) :
           tasks[i].startMin = 540 /\ tasks[i].durationMin = 60

(***************************************************************************)
(* Properties of the exports (SpecExport).                                 *)
(***************************************************************************)
Exported == lastOp.op \in {"exportCalendar", "exportGoogle", "exportJSON"}

\* the task of the collection with the given id has a start minute
IsPlaced(id) == \E i \in 1 .. Len(tasks) : tasks[i].id = id /\ tasks[i].startMin # Null

\* C12: every export (calendar file, Google Calendar, JSON) hands out placed
\* tasks only, never a task without a start minute; and when the collection
\* has no placed task the calendar and Google exports show 'No scheduled
\* tasks to export!' and hand out nothing.
C12_ExportsOnlyPlaced ==
    Exported =>
        /\ \A i \in 1 .. Len(lastOp.out.ids) : IsPlaced(lastOp.out.ids[i])
        /\ (lastOp.op \in {"exportCalendar", "exportGoogle"} /\ Placed(tasks) = <<>>)
               => /\ lastOp.out.alert
                  /\ ~lastOp.out.made
                  /\ ~lastOp.out.threw
                  /\ lastOp.out.ids = <<>>

\* C16: the calendar file generateICS writes holds exactly one VEVENT for
\* every task of its input that has a start minute, midnight (0) included,
\* and none for a task without one.
C16_IcsEventPerPlacedTask ==
    (lastOp.op = "exportCalendar" /\ lastOp.out.made) =>
        LET input == scheduledTasks(tasks)
        IN  \A i \in 1 .. Len(input) :
                Cardinality({ k \in 1 .. Len(lastOp.out.ids) :
                                  lastOp.out.ids[k] = input[i].id })
                    = (IF input[i].startMin # Null THEN 1 ELSE 0)

(***************************************************************************)
(* Properties of loading (SpecLoad).                                       *)
(***************************************************************************)
\* C13: whatever is stored under the date key (nothing, text that does not
\* parse, JSON that is not an array of tasks, or an array of tasks), loading
\* gives a schedule the view can work on: the render does not fail, and a
\* stored value that is not an array of tasks is shown as the empty schedule.
C13_LoadUsable ==
    lastOp.op = "load" =>
        /\ ~lastOp.failed
        /\ lastOp.data = "array"
        /\ lastOp.raw # "array" => tasks = <<>>

(***************************************************************************)
(* Properties of calls made between renders (SpecStale).                   *)
(***************************************************************************)
\* C14: mutations do not interleave: every handler works on the collection
\* that all calls made before it have produced, also when it is called
\* before the view has rendered the result of the call before it, so that
\* what is saved after two calls in a row holds the effect of both.
C14_MutationsCompose ==
    [][/\ lastOp'.op = "create"
            => /\ Len(saved') = Len(saved) + 1
               /\ SubSeq(saved', 1, Len(saved)) = saved
               /\ saved'[Len(saved')].id = lastOp'.id
       /\ lastOp'.op = "schedule"
            => saved' = Schedule(saved, lastOp'.id, lastOp'.m)
       /\ lastOp'.op = "delete"
            => saved' = DeleteTask(saved, lastOp'.id)]_vars

(***************************************************************************)
(* Properties of the derived selection (SpecFocus).                        *)
(***************************************************************************)
\* C15: the derived selected task is either none or a task that is in the
\* collection and placed.  Deleting or unscheduling the selected task leaves
\* selectedId as it was, and from then on there is no derived selection,
\* isActive is false, remaining is 0 and Focus Mode is not shown.
C15_SelectionDerived ==
    /\ hasSelected
           => /\ IsPlaced(selectedId)
              /\ selected.id = selectedId
              /\ selected.startMin # Null
              /\ \E i \in 1 .. Len(tasks) : tasks[i] = selected
    /\ focusModeShown => IsPlaced(selectedId)
    /\ ~IsPlaced(selectedId)
           => /\ ~hasSelected
              /\ ~isActive
              /\ remaining = 0
              /\ ~focusModeShown
    /\ (lastOp.op \in {"delete", "unschedule"} /\ lastOp.id = selectedId)
           => /\ ~hasSelected
              /\ ~isActive
              /\ remaining = 0

\* the selected task has just been taken off the dial; selectedId still
\* names it and it is still in the collection
C15_Witness ==
    /\ lastOp.op = "unschedule"
    /\ selectedId # Null
    /\ lastOp.id = selectedId
    /\ selectedId \in IdsOf(tasks)
    /\ ~hasSelected

====
